---- MODULE Spec2Model ----
(***************************************************************************)
(* A model of galgebra/metric.py: the linear decomposition engine          *)
(* (linear_expand, collect) and the Metric class (construction of the      *)
(* metric tensor, orthogonality, connection, inverse, signature).          *)
(***************************************************************************)
EXTENDS Integers, Sequences, FiniteSets, TLC

(***************************************************************************)
(* Bounds of the model.                                                    *)
(***************************************************************************)
\* longest product of non-commutative atoms in one term of an expression
MaxNC == 2
\* most terms in an expression handed to linear_expand / collect
MaxTerms == 2
\* largest dimension n of the vector space of a Metric
MaxDim == 2
\* number of times one instance builds the same Christoffel array
MaxComputed == 3
\* length of a simplifier pipeline
MaxPipe == 2
\* largest coefficient of an expression handed to Simp.applymv again
MaxCoef == 1

(***************************************************************************)
(* PART 1.  Expressions over non-commutative basis atoms.                  *)
(*                                                                         *)
(* A term is a commutative coefficient c (an integer) times a word nc of   *)
(* non-commutative atoms (the empty word for a scalar term).  An           *)
(* expression is a sequence of terms, read as their sum.                   *)
(***************************************************************************)
\* the non-commutative basis atoms e_1, e_2
NCAtoms == {1, 2}
\* coefficients of the terms an expression is built from
CoefVals == {-1, 1}
\* lists of atoms handed to collect (duplicates allowed)
NcLists == {<<>>} \cup {<<a>> : a \in NCAtoms} \cup {<<a, b>> : a, b \in NCAtoms}

Words == UNION {[1..k -> NCAtoms] : k \in 0..MaxNC}
Terms == [c : CoefVals, nc : Words]
Expressions == UNION {[1..k -> Terms] : k \in 0..MaxTerms}

\* sympy's S(1), the implicit scalar basis, and an atom x as a basis key:
\* a basis key is <<atom, power>> (sympy holds e1*e1 as the one factor e1**2)
One == <<0, 0>>
AtomKey(a) == <<a, 1>>

RECURSIVE WordKey(_)
\* a total order on words, standing for the canonical order of Add.args
WordKey(w) ==
    IF w = <<>> THEN 0
    ELSE WordKey(SubSeq(w, 1, Len(w) - 1)) * (Cardinality(NCAtoms) + 1) + w[Len(w)]

RECURSIVE SumCoef(_, _)
\* the sum of the coefficients of the terms of e with word w
SumCoef(e, w) ==
    IF e = <<>> THEN 0
    ELSE (IF Head(e).nc = w THEN Head(e).c ELSE 0) + SumCoef(Tail(e), w)

RECURSIVE SortWords(_)
SortWords(S) ==
    IF S = {} THEN <<>>
    ELSE LET m == CHOOSE w \in S : \A v \in S : WordKey(w) <= WordKey(v)
         IN  <<m>> \o SortWords(S \ {m})

\* expand(expr): like terms collected, zero terms dropped, canonical order
Expand(e) ==
    LET ws == {e[i].nc : i \in 1..Len(e)}
        live == {w \in ws : SumCoef(e, w) # 0}
        order == SortWords(live)
    IN  [i \in 1..Len(order) |-> [c |-> SumCoef(e, order[i]), nc |-> order[i]]]

RECURSIVE RunLength(_)
\* length of the leading run of equal atoms of a non-empty word
RunLength(w) ==
    IF Len(w) = 1 THEN 1
    ELSE IF w[2] = w[1] THEN 1 + RunLength(Tail(w)) ELSE 1

RECURSIVE NcFactors(_)
\* the non-commutative factors of a word: maximal runs a**p, as <<a, p>>
NcFactors(w) ==
    IF w = <<>> THEN <<>>
    ELSE LET p == RunLength(w)
         IN  <<(<<w[1], p>>)>> \o NcFactors(SubSeq(w, p + 1, Len(w)))

\* term.args_cnc(): the commutative factors and the non-commutative factors
ArgsCnc(term) ==
    [c |-> IF term.c = 1 THEN <<>> ELSE <<term.c>>, nc |-> NcFactors(term.nc)]

RECURSIVE MulFromArgsZero(_)
MulFromArgsZero(c) == IF c = <<>> THEN 0 ELSE Head(c) * MulFromArgsZero(Tail(c))

RECURSIVE MulFromArgs(_)
\* Mul._from_args(c): the product of the factors, 1 for none
MulFromArgs(c) == IF c = <<>> THEN 1 ELSE Head(c) * MulFromArgs(Tail(c))

\* bases.index(b): the first position of b in bases (0 when absent)
IndexOf(bases, b) ==
    IF \E i \in 1..Len(bases) : bases[i] = b
    THEN CHOOSE i \in 1..Len(bases) : bases[i] = b /\ \A j \in 1..(i - 1) : bases[j] # b
    ELSE 0

\* one pass of the loop of linear_expand over a term
ExpandStep(acc, term) ==
    LET cnc == ArgsCnc(term)
        base == IF term.nc = <<>> THEN One ELSE cnc.nc[1]
        coef == IF term.nc = <<>> THEN term.c ELSE MulFromArgs(cnc.c)
        i == IndexOf(acc.bases, base)
    IN  IF i # 0
        THEN [coefs |-> [acc.coefs EXCEPT ![i] = @ + coef], bases |-> acc.bases]
        ELSE [coefs |-> Append(acc.coefs, coef), bases |-> Append(acc.bases, base)]

RECURSIVE ExpandLoop(_, _)
ExpandLoop(acc, args) ==
    IF args = <<>> THEN acc
    ELSE ExpandLoop(ExpandStep(acc, Head(args)), Tail(args))

\* linear_expand(expr): (coefs, bases)
LinearExpand(e) ==
    LET x == Expand(e)
    IN  IF x = <<>> THEN [coefs |-> <<0>>, bases |-> <<One>>]
        ELSE IF Len(x) = 1 /\ x[1].nc = <<>>
             THEN [coefs |-> <<x[1].c>>, bases |-> <<One>>]
             ELSE ExpandLoop([coefs |-> <<>>, bases |-> <<>>], x)

\* the word a basis key stands for: the atom repeated power times
KeyWord(b) == [i \in 1..b[2] |-> b[1]]

\* coef * base as a term, and C += term with sympy's automatic collection
TimesBase(coef, b) == [c |-> coef, nc |-> KeyWord(b)]
AddTerm(C, t) == Expand(Append(C, t))

RECURSIVE CollectLoop(_, _, _)
CollectLoop(C, le, l) ==
    IF l = <<>> THEN C
    ELSE LET x == AtomKey(Head(l))
             i == IndexOf(le.bases, x)
         IN  CollectLoop(IF i # 0 THEN AddTerm(C, TimesBase(le.coefs[i], x)) ELSE C,
                         le, Tail(l))

\* collect(A, nc_list)
Collect(A, l) == CollectLoop(<<>>, LinearExpand(A), l)

RECURSIVE Reconstruct(_, _)
\* the sum over i of coefs[i]*bases[i], as an expression
Reconstruct(coefs, bases) ==
    IF coefs = <<>> THEN <<>>
    ELSE <<TimesBase(Head(coefs), Head(bases))>> \o Reconstruct(Tail(coefs), Tail(bases))

(***************************************************************************)
(* The simplifier, class Simp.  A transform is a callable on a             *)
(* coefficient; Simp.modes is a list or tuple of transforms (list = TRUE)  *)
(* or one bare callable (list = FALSE, fs holds it alone).                 *)
(***************************************************************************)
\* callables handed to Simp.profile: simplify, which leaves a numeric
\* coefficient as it is, and two that change it and do not commute
Transforms == {"simplify", "double", "inc"}
\* mode(coef)
CallTransform(f, c) ==
    CASE f = "simplify" -> c
      [] f = "double" -> 2 * c
      [] f = "inc" -> c + 1

Pipelines ==
    {[list |-> TRUE, fs |-> fs] : fs \in UNION {[1..k -> Transforms] : k \in 0..MaxPipe}}
    \cup {[list |-> FALSE, fs |-> <<f>>] : f \in Transforms}
\* modes = [simplify]
DefaultModes == [list |-> TRUE, fs |-> <<"simplify">>]

RECURSIVE ApplyModesReversed(_, _)
\* the transforms applied last to first
ApplyModesReversed(fs, c) ==
    IF fs = <<>> THEN c
    ELSE CallTransform(Head(fs), ApplyModesReversed(Tail(fs), c))

RECURSIVE ApplyModes(_, _)
\* for mode in Simp.modes: coef = mode(coef)
ApplyModes(fs, c) ==
    IF fs = <<>> THEN c
    ELSE ApplyModes(Tail(fs), CallTransform(Head(fs), c))

RECURSIVE ApplyLoop(_, _, _, _)
\* the loop of Simp.apply over zip(coefs, bases): obj += coef * base
ApplyLoop(m, cs, bs, obj) ==
    IF cs = <<>> \/ bs = <<>> THEN obj
    ELSE LET coef == IF m.list THEN ApplyModes(m.fs, Head(cs))
                     ELSE CallTransform(m.fs[1], Head(cs))
         IN  ApplyLoop(m, Tail(cs), Tail(bs), AddTerm(obj, TimesBase(coef, Head(bs))))

\* Simp.apply(expr) under the pipeline m = Simp.modes
SimpApply(m, e) ==
    LET le == LinearExpand(e)
    IN  ApplyLoop(m, le.coefs, le.bases, <<>>)

(***************************************************************************)
(* PART 2.  The Metric class.                                              *)
(*                                                                         *)
(* A scalar entry of a metric is a record [t, a, b, nrm]:                  *)
(*   "num"  the number a                                                   *)
(*   "sym"  the constant real symbol (e_a.e_b); a = b = 0 is a symbol the  *)
(*          caller supplies                                                *)
(*   "fn"   the function g_a_b(coords) of the general metric g = 'g'       *)
(*   "sq"   x_a**2, a function of coordinate a alone                       *)
(*   "nan", "zoo"  0/0 and c/0                                             *)
(* nrm = 1 marks the entry at [i, j] as divided by e_norm[i]*e_norm[j].    *)
(***************************************************************************)
Num(v) == [t |-> "num", a |-> v, b |-> 0, nrm |-> 0]
Sym(i, j) == [t |-> "sym", a |-> i, b |-> j, nrm |-> 0]
Fn(i, j) == [t |-> "fn", a |-> i, b |-> j, nrm |-> 0]
Sq(k) == [t |-> "sq", a |-> k, b |-> 0, nrm |-> 0]
SymA == Sym(0, 0)

\* expr != 0 is false, and expr.is_number
IsZero(e) == e = Num(0)
IsNumber(e) == e.t = "num"

Min(x, y) == IF x <= y THEN x ELSE y
Max(x, y) == IF x <= y THEN y ELSE x
Range(n) == 1..n
Mat(n, f(_, _)) == [i \in 1..n |-> [j \in 1..n |-> f(i, j)]]

(***************************************************************************)
(* Polynomials over the entries, for the determinant that decides whether  *)
(* g.inv() exists.  A monomial is <<c, v>>: the integer c times the        *)
(* product of the generators listed (sorted) in v.                         *)
(***************************************************************************)
GenId(e) ==
    CASE e.t = "sym" -> 10 + 10 * e.a + e.b
      [] e.t = "fn" -> 200 + 10 * e.a + e.b
      [] OTHER -> e.a

RECURSIVE Merge(_, _)
Merge(u, v) ==
    IF u = <<>> THEN v
    ELSE IF v = <<>> THEN u
    ELSE IF Head(u) <= Head(v) THEN <<Head(u)>> \o Merge(Tail(u), v)
    ELSE <<Head(v)>> \o Merge(u, Tail(v))

EntryPoly(e) ==
    CASE e.t = "num" -> IF e.a = 0 THEN {} ELSE {<<e.a, <<>> >>}
      [] e.t = "sq" -> {<<1, <<GenId(e), GenId(e)>> >>}
      [] OTHER -> {<<1, <<GenId(e)>> >>}

\* P + Q: like monomials summed, zero monomials dropped
PolyAdd(P, Q) ==
    LET vs == {m[2] : m \in P \cup Q}
        co(R, v) == IF \E m \in R : m[2] = v
                    THEN (CHOOSE m \in R : m[2] = v)[1] ELSE 0
    IN  {<<co(P, v) + co(Q, v), v>> : v \in {w \in vs : co(P, w) + co(Q, w) # 0}}

PolyScale(P, m) == {<<q[1] * m[1], Merge(q[2], m[2])>> : q \in P}

RECURSIVE PolyMul(_, _)
PolyMul(P, Q) ==
    IF Q = {} THEN {}
    ELSE LET m == CHOOSE q \in Q : TRUE
         IN  PolyAdd(PolyScale(P, m), PolyMul(P, Q \ {m}))

Perms(n) == {f \in [1..n -> 1..n] : \A i, j \in 1..n : i # j => f[i] # f[j]}
PermSign(n, f) ==
    IF Cardinality({p \in (1..n) \X (1..n) : p[1] < p[2] /\ f[p[1]] > f[p[2]]}) % 2 = 0
    THEN 1 ELSE -1

RECURSIVE RowProduct(_, _, _)
RowProduct(m, f, i) ==
    IF i = 0 THEN {<<1, <<>> >>}
    ELSE PolyMul(RowProduct(m, f, i - 1), EntryPoly(m[i][f[i]]))

RECURSIVE DetSum(_, _, _)
DetSum(m, n, fs) ==
    IF fs = {} THEN {}
    ELSE LET f == CHOOSE h \in fs : TRUE
         IN  PolyAdd(PolyScale(RowProduct(m, f, n), <<PermSign(n, f), <<>> >>),
                     DetSum(m, n, fs \ {f}))

\* the determinant of the n x n matrix m
Det(m, n) == DetSum(m, n, Perms(n))

(***************************************************************************)
(* Metric specification strings: rows separated by ",", entries by " ".    *)
(* An entry is "#", an integer, or a fraction "num/den".                   *)
(***************************************************************************)
TokHash == [k |-> "#", num |-> 0, den |-> 1]
TokInt(v) == [k |-> "int", num |-> v, den |-> 1]
TokFrac(p, q) == [k |-> "frac", num |-> p, den |-> q]

\* Rational(num, dem) for "num/dem", Rational(s) otherwise
ParseRational(tok) ==
    IF tok.k = "frac" THEN Num(tok.num \div tok.den) ELSE Num(tok.num)

\* the string n * '# ' repeated over n rows that metric_symbols_list builds
DefaultRows(n) == [i \in 1..n |-> [j \in 1..n |-> TokHash]]

ErrRank == "ValueError: different rank than bases"
ErrSquare == "ValueError: does not represent square metric"

\* metric_symbols_list(s) on a basis of n vectors: [err, m]
MetricSymbolsList(rows, n) ==
    IF Len(rows) = 1
    THEN LET m_lst == rows[1]
             m == [i \in 1..Min(Len(m_lst), n) |->
                     IF m_lst[i].k = "#" THEN Sym(i, i) ELSE ParseRational(m_lst[i])]
         IN  IF Len(m) # n
             THEN [err |-> ErrRank, m |-> <<>>]
             ELSE [err |-> "none",
                   m |-> Mat(n, LAMBDA i, j : IF i = j THEN m[i] ELSE Num(0))]
    ELSE IF \E r \in 1..Len(rows) : Len(rows[r]) # Len(rows)
         THEN [err |-> ErrSquare, m |-> <<>>]
         ELSE IF Len(rows) # n
              THEN [err |-> ErrRank, m |-> <<>>]
              ELSE [err |-> "none",
                    m |-> Mat(n, LAMBDA i, j :
                              IF rows[i][j].k = "#"
                              THEN (IF i <= j THEN Sym(i, j) ELSE Sym(j, i))
                              ELSE ParseRational(rows[i][j]))]

RECURSIVE DotOrthogonal(_, _)
\* Metric.dot_orthogonal(V1, V2) with g = None
DotOrthogonal(V1, V2) ==
    IF V1 = <<>> \/ V2 = <<>> THEN 0
    ELSE Head(V1) * Head(V2) + DotOrthogonal(Tail(V1), Tail(V2))

(***************************************************************************)
(* Derivatives.  A derivative of an entry is a linear combination, held as *)
(* a set of <<generator, coefficient>> with non-zero coefficients; the     *)
(* generators are <<"D", i, j, k>>, the derivative of g_i_j by x_k, and    *)
(* <<"X", k, 0, 0>>, the coordinate x_k.                                   *)
(***************************************************************************)
\* diff(e, x_k)
Diff(e, k) ==
    CASE e.t = "fn" -> {<< <<"D", e.a, e.b, k>>, 1 >>}
      [] e.t = "sq" -> IF e.a = k THEN {<< <<"X", k, 0, 0>>, 2 >>} ELSE {}
      [] OTHER -> {}

LinCoef(L, x) == IF \E p \in L : p[1] = x THEN (CHOOSE p \in L : p[1] = x)[2] ELSE 0
LinAdd(A, B) ==
    LET xs == {p[1] : p \in A \cup B}
    IN  {<<x, LinCoef(A, x) + LinCoef(B, x)>> :
            x \in {y \in xs : LinCoef(A, y) + LinCoef(B, y) # 0}}
LinNeg(A) == {<<p[1], 0 - p[2]>> : p \in A}

\* derivatives_of_g: dg[i][j][k] = diff(g[i, j], x_k)
DerivativesOfG(g, n) ==
    [i \in 1..n |-> [j \in 1..n |-> [k \in 1..n |-> Diff(g[i][j], k)]]]

\* init_connect_flg: is any dg[i][j][k] != 0
InitConnectFlg(dg, n) == \E i, j, k \in 1..n : dg[i][j][k] # {}

\* half * (dg[j][k][i] + dg[i][k][j] - dg[i][j][k]), the numerator over 2
GammaIjk(dg, i, j, k) ==
    [num |-> LinAdd(LinAdd(dg[j][k][i], dg[i][k][j]), LinNeg(dg[i][j][k])),
     den |-> 2]

\* Christoffel symbols of the first kind, dG[i][j][k]
ChristoffelFirst(dg, n) ==
    [i \in 1..n |-> [j \in 1..n |-> [k \in 1..n |-> GammaIjk(dg, i, j, k)]]]

(***************************************************************************)
(* Square roots and normalisation.                                         *)
(***************************************************************************)
Abs(v) == IF v < 0 THEN 0 - v ELSE v

\* square_root_of_expr(expr)
SquareRootOfExpr(e) ==
    CASE e.t = "num" ->
            IF \E r \in 0..Abs(e.a) : r * r = Abs(e.a)
            THEN Num(CHOOSE r \in 0..Abs(e.a) : r * r = Abs(e.a))
            ELSE [t |-> "sqrt", a |-> Abs(e.a), b |-> 0, nrm |-> 0]
      [] e.t = "sq" -> [t |-> "x", a |-> e.a, b |-> 0, nrm |-> 0]
      [] OTHER -> [t |-> "sqrtabs", a |-> GenId(e), b |-> 0, nrm |-> 0]

\* Simp.apply(g[ib, jb] / (e_norm[ib] * e_norm[jb]))
NormEntry(e, i, j, e_norm) ==
    IF IsZero(e_norm[i]) \/ IsZero(e_norm[j])
    THEN [t |-> IF IsZero(e) THEN "nan" ELSE "zoo", a |-> 0, b |-> 0, nrm |-> 0]
    ELSE IF IsZero(e) THEN Num(0)
    ELSE IF i = j /\ e.t = "num" THEN Num(IF e.a > 0 THEN 1 ELSE -1)
    ELSE IF i = j /\ e.t = "sq" THEN Num(1)
    ELSE IF e.t = "num" /\ e_norm[i].t = "num" /\ e_norm[j].t = "num"
            /\ e.a % (e_norm[i].a * e_norm[j].a) = 0
         THEN Num(e.a \div (e_norm[i].a * e_norm[j].a))
         ELSE [e EXCEPT !.nrm = 1]

(***************************************************************************)
(* The Metric instance.  self is the record of its attributes; an          *)
(* attribute not yet assigned is Unset (reading it raises AttributeError), *)
(* coords = <<>> stands for coords = None.                                 *)
(***************************************************************************)
None == [st |-> "None", v |-> <<>>]
Unset == [st |-> "unset", v |-> <<>>]
Set(v) == [st |-> "set", v |-> v]

ErrBasisCoords == "ValueError: for basis coords must be entered"
ErrCoordsNeeded == "ValueError: For metric derived from vector field coordinates must be defined."
ErrNoneIter == "TypeError: 'NoneType' object is not iterable"
ErrNorm == "ValueError: Basis normalization only implemented for orthogonal basis"
ErrNoDe == "AttributeError: 'Metric' object has no attribute 'de'"
ErrSigRange == "ValueError: self.sig > self.n, not an allowed hint"
ErrSigHint == "ValueError: self.sig is not an allowed hint"
ErrSigValue == "ValueError: is not allowed value for self.sig"
ErrNaN == "TypeError: Invalid NaN comparison"
ErrCallable == "TypeError: 'MutableDenseMatrix' object is not callable"
ErrSingular == "NonInvertibleMatrixError: Matrix det == 0; not invertible."
ErrMode == "ValueError: In Christoffle_symobols mode is not allowed"

\* signature values: the hints 'e', 'm+', 'm-', another string, an integer
\* p, a value of another type, and the resolved pair (p, q)
SigStr(name) == [t |-> name, p |-> 0, q |-> 0]
SigInt(k) == [t |-> "int", p |-> k, q |-> 0]
SigPair(p, q) == [t |-> "pair", p |-> p, q |-> q]
SigOther == [t |-> "other", p |-> 0, q |-> 0]

Eye(n) == Mat(n, LAMBDA i, j : IF i = j THEN Num(1) ELSE Num(0))
NoInverse == [kind |-> "None", m |-> <<>>]

\* is_ortho and g_is_numeric, as __init__ computes them (entries i < j)
IsOrtho(g, n) == \A i, j \in 1..n : i < j => IsZero(g[i][j])
GIsNumeric(g, n) == \A i, j \in 1..n : i < j => IsNumber(g[i][j])

\* derivatives_of_basis without the early return for a flat metric: de is
\* always an array (of zero sums when the connection vanishes)
DerivativesOfBasisZeros(s) ==
    LET dg == DerivativesOfG(s.g, s.n)
        dG == ChristoffelFirst(dg, s.n)
    IN  [s EXCEPT !.dg = dg, !.connect_flg = InitConnectFlg(dg, s.n),
                  !.de = Set([i \in 1..s.n |-> [j \in 1..s.n |->
                                 [gam |-> dG[i][j], nrm |-> 0]]])]

\* derivatives_of_basis(self)
DerivativesOfBasis(s) ==
    LET dg == DerivativesOfG(s.g, s.n)
        flg == InitConnectFlg(dg, s.n)
        dG == ChristoffelFirst(dg, s.n)
    IN  IF ~flg
        THEN [s EXCEPT !.dg = dg, !.connect_flg = FALSE, !.de = None]
        ELSE [s EXCEPT !.dg = dg, !.connect_flg = TRUE,
                       !.de = Set([i \in 1..s.n |-> [j \in 1..s.n |->
                                      [gam |-> dG[i][j], nrm |-> 0]]])]

\* normalize_metric(self): [self, err]
NormalizeMetric(s) ==
    IF s.de.st = "unset" THEN [self |-> s, err |-> ErrNoDe]
    ELSE IF s.de.st = "None" THEN [self |-> s, err |-> "none"]
    ELSE [self |-> [s EXCEPT
                      !.de = Set([i \in 1..s.n |-> [j \in 1..s.n |->
                                     [s.de.v[i][j] EXCEPT !.nrm = 1]]]),
                      !.g = Mat(s.n, LAMBDA i, j : NormEntry(s.g[i][j], i, j, s.e_norm.v))],
          err |-> "none"]

\* the loop of signature() over the diagonal: it stops at the first entry
\* that is no number
NumericPrefix(g, n) ==
    IF \E i \in 1..n : ~IsNumber(g[i][i]) /\ g[i][i].t # "nan"
    THEN (CHOOSE i \in 1..n : /\ ~IsNumber(g[i][i]) /\ g[i][i].t # "nan"
                              /\ \A j \in 1..(i - 1) : IsNumber(g[j][j]) \/ g[j][j].t = "nan") - 1
    ELSE n

\* signature(self): [self, err]
Signature(s) ==
    LET k == NumericPrefix(s.g, s.n)
        p == Cardinality({i \in 1..k : s.g[i][i].a > 0})
        q == Cardinality({i \in 1..k : ~(s.g[i][i].a > 0)})
    IN  IF s.is_ortho /\ \E i \in 1..k : s.g[i][i].t = "nan"
        THEN [self |-> s, err |-> ErrNaN]
        ELSE IF s.is_ortho /\ p + q = s.n
        THEN [self |-> [s EXCEPT !.sig = SigPair(p, q)], err |-> "none"]
        ELSE IF s.sig.t = "int"
        THEN IF s.sig.p <= s.n
             THEN [self |-> [s EXCEPT !.sig = SigPair(s.sig.p, s.n - s.sig.p)], err |-> "none"]
             ELSE [self |-> s, err |-> ErrSigRange]
        ELSE IF s.sig.t = "e"
        THEN [self |-> [s EXCEPT !.sig = SigPair(s.n, 0)], err |-> "none"]
        ELSE IF s.sig.t = "m+"
        THEN [self |-> [s EXCEPT !.sig = SigPair(s.n - 1, 1)], err |-> "none"]
        ELSE IF s.sig.t = "m-"
        THEN [self |-> [s EXCEPT !.sig = SigPair(1, s.n - 1)], err |-> "none"]
        ELSE IF s.sig.t = "str"
        THEN [self |-> s, err |-> ErrSigHint]
        ELSE [self |-> s, err |-> ErrSigValue]

\* inverse_metric without its test of self.g_inv: it computes on every call
InverseMetricNoCache(s) ==
    IF s.is_ortho
    THEN [self |-> [s EXCEPT !.g_inv = [kind |-> "eye", m |-> Eye(s.n)]],
          err |-> ErrCallable]
    ELSE IF s.gsym = "None"
    THEN IF Det(s.g, s.n) = {}
         THEN [self |-> s, err |-> ErrSingular]
         ELSE [self |-> [s EXCEPT !.g_inv = [kind |-> "inverse", m |-> s.g]],
               err |-> "none"]
    ELSE IF s.coords = <<>>
    THEN [self |-> s, err |-> ErrNoneIter]
    ELSE [self |-> [s EXCEPT !.detg = "|gsym|", !.g_adj = "adjugate",
                             !.g_inv = [kind |-> "adj_over_detg", m |-> s.g]],
          err |-> "none"]

\* inverse_metric(self): [self, err]
InverseMetric(s) ==
    IF s.g_inv.kind # "None" THEN [self |-> s, err |-> "none"]
    ELSE IF s.is_ortho
    THEN [self |-> [s EXCEPT !.g_inv = [kind |-> "eye", m |-> Eye(s.n)]],
          err |-> ErrCallable]
    ELSE IF s.gsym = "None"
    THEN IF Det(s.g, s.n) = {}
         THEN [self |-> s, err |-> ErrSingular]
         ELSE [self |-> [s EXCEPT !.g_inv = [kind |-> "inverse", m |-> s.g]],
               err |-> "none"]
    ELSE IF s.coords = <<>>
    THEN [self |-> s, err |-> ErrNoneIter]
    ELSE [self |-> [s EXCEPT !.detg = "|gsym|", !.g_adj = "adjugate",
                             !.g_inv = [kind |-> "adj_over_detg", m |-> s.g]],
          err |-> "none"]

\* self.g_inv[l, k]
GInvEntry(g_inv, l, k) ==
    IF g_inv.kind \in {"eye", "symbols"} THEN g_inv.m[l][k]
    ELSE [t |-> g_inv.kind, a |-> l, b |-> k, nrm |-> 0]

\* sum of Gamma_ijl * g_inv[l, k] over l: the non-zero products, by l
Gamma2Ijk(Gamma1, g_inv, n, i, j, k) ==
    {<<l, Gamma1[i][j][l], GInvEntry(g_inv, l, k)>> :
        l \in {m \in 1..n : Gamma1[i][j][m].num # {} /\ ~IsZero(GInvEntry(g_inv, m, k))}}

\* Christoffel_symbols(self, mode): [self, ret, err]
ChristoffelSymbols(s, mode) ==
    IF ~s.connect_flg THEN [self |-> s, ret |-> None, err |-> "none"]
    ELSE IF mode = 1
    THEN [self |-> s, ret |-> [st |-> "dG", v |-> ChristoffelFirst(s.dg, s.n)],
          err |-> "none"]
    ELSE IF mode = 2
    THEN LET Gamma1 == ChristoffelFirst(s.dg, s.n)
             inv == InverseMetric(s)
         IN  IF inv.err # "none"
             THEN [self |-> inv.self, ret |-> None, err |-> inv.err]
             ELSE [self |-> inv.self,
                   ret |-> [st |-> "Gamma2",
                           v |-> [i \in 1..s.n |-> [j \in 1..s.n |-> [k \in 1..s.n |->
                                    Gamma2Ijk(Gamma1, inv.self.g_inv, s.n, i, j, k)]]]],
                   err |-> "none"]
    ELSE [self |-> s, ret |-> None, err |-> ErrMode]

\* __init__ from the metric on (the metric is built and copied to g_raw):
\* orthogonality, derivatives of the basis, normalisation, signature
AfterMetric(s2) ==
    LET s3 == IF s2.coords # <<>> THEN DerivativesOfBasis(s2) ELSE s2
    IN  IF s3.coords # <<>> /\ s3.norm /\ ~s3.is_ortho
        THEN [self |-> s3, err |-> ErrNorm]
        ELSE
        LET s4 == IF s3.coords = <<>> THEN s3
                  ELSE [s3 EXCEPT !.e_norm =
                          IF s3.norm
                          THEN Set([i \in 1..s3.n |-> SquareRootOfExpr(s3.g[i][i])])
                          ELSE None]
            nm == IF ~s4.norm THEN [self |-> s4, err |-> "none"]
                  ELSE IF s4.is_ortho THEN NormalizeMetric(s4)
                  ELSE [self |-> s4, err |-> ErrNorm]
        IN  IF nm.err # "none" \/ nm.self.g_is_numeric THEN nm
            ELSE LET sg == Signature(nm.self)
                     n == sg.self.n
                 IN  IF sg.err # "none" THEN sg
                     ELSE [self |-> [sg.self EXCEPT !.e_sq_sgn =
                                       IF ((n * (n - 1)) \div 2 + sg.self.sig.q) % 2 = 1
                                       THEN "-" ELSE "+"],
                           err |-> "none"]

\* the attributes __init__ assigns before it builds the metric
NewSelf(kw, n) ==
    [n |-> n, coords |-> IF kw.coords THEN [i \in 1..n |-> i] ELSE <<>>,
     g |-> <<>>, g_raw |-> <<>>, g_inv |-> NoInverse,
     is_ortho |-> FALSE, g_is_numeric |-> FALSE, connect_flg |-> kw.coords,
     norm |-> kw.norm, sig |-> kw.sig, gsym |-> kw.gsym,
     dg |-> <<>>, de |-> Unset, e_norm |-> Unset, e_sq_sgn |-> "unset",
     detg |-> "None", g_adj |-> "None"]

\* the dispatch of __init__ on g and X: [err, g, g_inv]
BuildG(kw, s) ==
    LET ok(m) == [err |-> "none", g |-> m, g_inv |-> NoInverse]
        bad(e) == [err |-> e, g |-> <<>>, g_inv |-> NoInverse]
    IN  CASE kw.form = "default" ->
                LET r == MetricSymbolsList(DefaultRows(s.n), s.n)
                IN  IF r.err = "none" THEN ok(r.m) ELSE bad(r.err)
          [] kw.form = "X" ->
                IF s.coords = <<>> THEN bad(ErrCoordsNeeded)
                ELSE ok(Mat(s.n, LAMBDA i, j : Num(DotOrthogonal(kw.J[i], kw.J[j]))))
          [] kw.form = "g" ->
                IF s.coords = <<>> THEN bad(ErrNoneIter)
                ELSE [err |-> "none",
                      g |-> Mat(s.n, LAMBDA i, j : Fn(i, j)),
                      g_inv |-> [kind |-> "symbols",
                                 m |-> Mat(s.n, LAMBDA i, j :
                                          [t |-> "fninv", a |-> i, b |-> j, nrm |-> 0])]]
          [] kw.form = "str" ->
                LET r == MetricSymbolsList(kw.rows, s.n)
                IN  IF r.err = "none" THEN ok(r.m) ELSE bad(r.err)
          [] kw.form \in {"matrix", "nested"} -> ok(kw.m)
          [] kw.form = "flat" ->
                ok(Mat(s.n, LAMBDA i, j : IF i = j THEN kw.flat[i] ELSE Num(0)))

\* Metric.__init__(basis, **kwargs): [self, err]
Build(b, kw) ==
    IF ~b.sep /\ ~kw.coords THEN [self |-> NewSelf(kw, 0), err |-> ErrBasisCoords]
    ELSE LET s1 == NewSelf(kw, b.n)
             gm == BuildG(kw, s1)
         IN  IF gm.err # "none" THEN [self |-> s1, err |-> gm.err]
             ELSE AfterMetric([s1 EXCEPT !.g = gm.g, !.g_raw = gm.g, !.g_inv = gm.g_inv,
                                         !.is_ortho = IsOrtho(gm.g, b.n),
                                         !.g_is_numeric = GIsNumeric(gm.g, b.n)])

(***************************************************************************)
(* The arguments the constructor is called with.                           *)
(***************************************************************************)
\* the basis string: names separated by " " or "," (sep), or a root string
\* that takes its indices from coords
Bases == [sep : BOOLEAN, n : 1..MaxDim]

DiagFirst == {Num(4), Num(-1), Sq(1)}
DiagRest == {Num(1), SymA}
OffDiag == {Num(0), Num(1), SymA, Sq(1)}
OneRowFirst == {TokHash, TokFrac(4, 2), TokInt(-1), TokInt(0)}
OneRowRest == {TokHash, TokInt(1)}
GridDiag == {TokHash, TokFrac(4, 2)}
GridOff == {TokHash, TokInt(0), TokInt(1)}
SigHints == {SigInt(-1), SigInt(1), SigInt(MaxDim + 1), SigStr("e"), SigStr("m+"),
             SigStr("m-"), SigStr("str"), SigOther}
GSyms == {"None", "g"}
Modes == {1, 2, 3}

GArg(form, rows, m, flat, J) ==
    [form |-> form, rows |-> rows, m |-> m, flat |-> flat, J |-> J]

InMatrices(n) ==
    {Mat(n, LAMBDA i, j : IF i = j THEN (IF i = 1 THEN d1 ELSE d2)
                          ELSE IF i < j THEN u ELSE l) :
        d1 \in DiagFirst, d2 \in DiagRest, u \in OffDiag, l \in OffDiag}
InFlats(n) ==
    {[i \in 1..n |-> IF i = 1 THEN d1 ELSE d2] : d1 \in DiagFirst, d2 \in DiagRest}
InOneRows ==
    {<<[i \in 1..k |-> IF i = 1 THEN t1 ELSE t2]>> :
        k \in 1..(MaxDim + 1), t1 \in OneRowFirst, t2 \in OneRowRest}
InGrids ==
    UNION {{[i \in 1..r |-> [j \in 1..c |->
                IF i = j THEN td ELSE IF i < j THEN tu ELSE tl]] :
              td \in GridDiag, tu \in GridOff, tl \in GridOff} :
           r \in 2..(MaxDim + 1), c \in 1..(MaxDim + 2)}
\* the tangent vectors dX of an embedding X that is linear in the coordinates
InJacobians(n) ==
    {[i \in 1..n |-> [c \in 1..n |-> IF c = i THEN 1 ELSE 0]],
     [i \in 1..n |-> [c \in 1..n |-> IF c = i THEN 2 ELSE 0]],
     [i \in 1..n |-> [c \in 1..n |-> IF c = i \/ c = (i % n) + 1 THEN 1 ELSE 0]]}

GArgs(n) ==
    {GArg("default", <<>>, <<>>, <<>>, <<>>), GArg("g", <<>>, <<>>, <<>>, <<>>)}
    \cup {GArg("X", <<>>, <<>>, <<>>, J) : J \in InJacobians(n)}
    \cup {GArg("str", rows, <<>>, <<>>, <<>>) : rows \in InOneRows \cup InGrids}
    \cup {GArg(f, <<>>, m, <<>>, <<>>) : f \in {"matrix", "nested"}, m \in InMatrices(n)}
    \cup {GArg("flat", <<>>, <<>>, fl, <<>>) : fl \in InFlats(n)}

Kwargs(n) ==
    {[form |-> a.form, rows |-> a.rows, m |-> a.m, flat |-> a.flat, J |-> a.J,
      coords |-> c, norm |-> nm, sig |-> sg, gsym |-> gs] :
        a \in GArgs(n), c \in BOOLEAN, nm \in BOOLEAN, sg \in SigHints, gs \in GSyms}

NoKwargs ==
    [form |-> "default", rows |-> <<>>, m |-> <<>>, flat |-> <<>>, J |-> <<>>,
     coords |-> FALSE, norm |-> FALSE, sig |-> SigStr("e"), gsym |-> "None"]

\* What a call computes.  inverse_metric assigns g_inv when it was None and
\* the call gets as far as the assignment.
InverseAssigns(s) ==
    IF s.g_inv.kind = "None" /\ InverseMetric(s).self.g_inv.kind # "None" THEN 1 ELSE 0

\* Christoffel_symbols builds dG for mode 1 and, through its call of itself,
\* for mode 2; it builds Gamma2 for mode 2 once inverse_metric has returned
ChristoffelBuilds(s, md) ==
    [g_inv |-> IF s.connect_flg /\ md = 2 THEN InverseAssigns(s) ELSE 0,
     dG |-> IF s.connect_flg /\ md \in {1, 2} THEN 1 ELSE 0,
     Gamma2 |-> IF s.connect_flg /\ md = 2 /\ InverseMetric(s).err = "none"
                THEN 1 ELSE 0]

\* derivatives_of_basis calls Christoffel_symbols(mode=1) when the connection
\* does not vanish
InitBuilds(s) ==
    [g_inv |-> 0, dG |-> IF s.de.st = "set" THEN 1 ELSE 0, Gamma2 |-> 0]

NothingComputed == [g_inv |-> 0, dG |-> 0, Gamma2 |-> 0]

(***************************************************************************)
(* The state machines.                                                     *)
(***************************************************************************)
VARIABLES
    expr,       \* the expression the caller holds
    op,         \* the last function called on it
    coefs,      \* linear_expand: the coefficients returned
    bases,      \* linear_expand: the bases returned
    nc_list,    \* collect: the list of atoms passed
    C,          \* collect: the sum returned
    pc,         \* "new": no Metric yet; "built"; "failed": __init__ raised
    kwargs,     \* the keyword arguments __init__ was called with
    self,       \* the attributes of the Metric instance
    call,       \* the last method called
    mode,       \* Christoffel_symbols: the mode it was called with (0: none)
    computed,   \* how often the instance assigned g_inv, built dG, built Gamma2
    modes,      \* Simp.modes, the active pipeline
    installed,  \* the argument of the latest Simp.profile call
    arg,        \* the expression the latest Simp.apply was given
    obj,        \* the expression it returned
    ret,        \* what it returned
    err         \* what it raised ("none": nothing)

varsE == <<expr, op, coefs, bases, nc_list, C>>
varsM == <<pc, kwargs, self, call, mode, computed, ret, err>>
varsS == <<modes, installed, arg, obj>>
vars == <<varsE, varsM, varsS>>

\* an expression in hand, no function called on it yet, and no Metric
InitE ==
    /\ expr \in Expressions
    /\ op = "none"
    /\ coefs = <<>>
    /\ bases = <<>>
    /\ nc_list = <<>>
    /\ C = <<>>
    /\ pc = "new"
    /\ kwargs = NoKwargs
    /\ self = NewSelf(NoKwargs, 0)
    /\ call = "none"
    /\ mode = 0
    /\ computed = NothingComputed
    /\ ret = None
    /\ err = "none"
    /\ modes = DefaultModes
    /\ installed = DefaultModes
    /\ arg = <<>>
    /\ obj = <<>>

\* no Metric constructed yet, and no expression in hand
InitM ==
    /\ expr = <<>>
    /\ op = "none"
    /\ coefs = <<>>
    /\ bases = <<>>
    /\ nc_list = <<>>
    /\ C = <<>>
    /\ pc = "new"
    /\ kwargs = NoKwargs
    /\ self = NewSelf(NoKwargs, 0)
    /\ call = "none"
    /\ mode = 0
    /\ computed = NothingComputed
    /\ ret = None
    /\ err = "none"
    /\ modes = DefaultModes
    /\ installed = DefaultModes
    /\ arg = <<>>
    /\ obj = <<>>

CallLinearExpand ==
    /\ op = "none"
    /\ op' = "linear_expand"
    /\ coefs' = LinearExpand(expr).coefs
    /\ bases' = LinearExpand(expr).bases
    /\ UNCHANGED <<expr, nc_list, C>>
    /\ UNCHANGED varsM
    /\ UNCHANGED varsS

CallCollect ==
    /\ op = "none"
    /\ \E l \in NcLists :
          /\ nc_list' = l
          /\ C' = Collect(expr, l)
    /\ op' = "collect"
    /\ UNCHANGED <<expr, coefs, bases>>
    /\ UNCHANGED varsM
    /\ UNCHANGED varsS

NextE == CallLinearExpand \/ CallCollect

\* Simp.profile(s)
CallProfile ==
    /\ \E s \in Pipelines :
          /\ modes' = s
          /\ installed' = s
    /\ op' = "profile"
    /\ UNCHANGED <<expr, coefs, bases, nc_list, C, arg, obj>>
    /\ UNCHANGED varsM

\* Simp.apply(expr)
CallApply ==
    /\ arg' = expr
    /\ obj' = SimpApply(modes, expr)
    /\ op' = "apply"
    /\ UNCHANGED <<expr, coefs, bases, nc_list, C, modes, installed>>
    /\ UNCHANGED varsM

\* Simp.applymv(mv), mv.obj being expr: mv.obj = Simp.apply(mv.obj)
CallApplymv ==
    /\ \A i \in 1..Len(expr) : expr[i].c \in (0 - MaxCoef)..MaxCoef
    /\ arg' = expr
    /\ obj' = SimpApply(modes, expr)
    /\ expr' = SimpApply(modes, expr)
    /\ op' = "applymv"
    /\ UNCHANGED <<coefs, bases, nc_list, C, modes, installed>>
    /\ UNCHANGED varsM

NextS == CallProfile \/ CallApply \/ CallApplymv

\* sums of a scalar and of multiples of the basis atoms
LinearExpressions == {e \in Expressions : \A i \in 1..Len(e) : Len(e[i].nc) <= 1}

\* a linear expression in hand, Simp.modes = [simplify], no Metric
InitS ==
    /\ expr \in LinearExpressions
    /\ op = "none"
    /\ coefs = <<>>
    /\ bases = <<>>
    /\ nc_list = <<>>
    /\ C = <<>>
    /\ pc = "new"
    /\ kwargs = NoKwargs
    /\ self = NewSelf(NoKwargs, 0)
    /\ call = "none"
    /\ mode = 0
    /\ computed = NothingComputed
    /\ ret = None
    /\ err = "none"
    /\ modes = DefaultModes
    /\ installed = DefaultModes
    /\ arg = <<>>
    /\ obj = <<>>

\* the simplifier: profile, apply and applymv in any order
SpecSimp == InitS /\ [][NextS]_vars

\* the linear decomposition engine on one expression
SpecExpand == InitE /\ [][NextE]_vars

Construct ==
    /\ pc = "new"
    /\ \E b \in Bases : \E kw \in Kwargs(b.n) :
          LET r == Build(b, kw)
          IN  /\ pc' = IF r.err = "none" THEN "built" ELSE "failed"
              /\ kwargs' = kw
              /\ self' = r.self
              /\ computed' = InitBuilds(r.self)
              /\ err' = r.err
    /\ call' = "__init__"
    /\ mode' = 0
    /\ ret' = None
    /\ UNCHANGED varsE
    /\ UNCHANGED varsS

CallInverseMetric ==
    /\ pc = "built"
    /\ LET r == InverseMetric(self)
       IN  self' = r.self /\ err' = r.err
    /\ computed' = [computed EXCEPT !.g_inv = @ + InverseAssigns(self)]
    /\ call' = "inverse_metric"
    /\ mode' = 0
    /\ ret' = None
    /\ UNCHANGED <<pc, kwargs>>
    /\ UNCHANGED varsE
    /\ UNCHANGED varsS

CallChristoffelSymbols ==
    /\ pc = "built"
    /\ \E md \in Modes :
          LET r == ChristoffelSymbols(self, md)
              b == ChristoffelBuilds(self, md)
          IN  /\ computed.dG + b.dG <= MaxComputed
              /\ mode' = md /\ self' = r.self /\ ret' = r.ret /\ err' = r.err
              /\ computed' = [g_inv |-> computed.g_inv + b.g_inv,
                              dG |-> computed.dG + b.dG,
                              Gamma2 |-> computed.Gamma2 + b.Gamma2]
    /\ call' = "Christoffel_symbols"
    /\ UNCHANGED <<pc, kwargs>>
    /\ UNCHANGED varsE
    /\ UNCHANGED varsS

CallSignature ==
    /\ pc = "built"
    /\ LET r == Signature(self)
       IN  self' = r.self /\ err' = r.err
    /\ call' = "signature"
    /\ mode' = 0
    /\ ret' = None
    /\ UNCHANGED <<pc, kwargs, computed>>
    /\ UNCHANGED varsE
    /\ UNCHANGED varsS

Next == Construct \/ CallInverseMetric \/ CallChristoffelSymbols \/ CallSignature

\* one Metric: its construction, then calls of its methods in any order
Spec == InitM /\ [][Next]_vars

(***************************************************************************)
(* Claims about the linear decomposition engine (under SpecExpand).        *)
(***************************************************************************)
\* every term of e holds at most one non-commutative factor (an atom or a
\* power of one atom)
SingleFactorTerms(e) == \A i \in 1..Len(e) : Len(NcFactors(e[i].nc)) <= 1

(* C1 (as stated): for any expression e, terms with several non-commutative
   atoms included, the sum of coefs[i]*bases[i] returned by linear_expand(e),
   fully expanded, equals the fully expanded e. *)
C1_RoundTripAnyExpression ==
    op = "linear_expand" => Expand(Reconstruct(coefs, bases)) = Expand(expr)

(* C1 (amended): for any expression e whose every term holds at most one
   non-commutative factor, the sum of coefs[i]*bases[i] returned by
   linear_expand(e), fully expanded, equals the fully expanded e. *)
C1_RoundTripSingleFactor ==
    (op = "linear_expand" /\ SingleFactorTerms(expr))
        => Expand(Reconstruct(coefs, bases)) = Expand(expr)

\* linear_expand has split a two-term expression with a scalar term and a
\* term c*e_a**2 into two (coefficient, basis) pairs
C1_Witness ==
    /\ op = "linear_expand"
    /\ SingleFactorTerms(expr)
    /\ Len(bases) = 2
    /\ bases[1] = One
    /\ \E a \in NCAtoms : bases[2] = <<a, 2>>
    /\ coefs[2] = -1

(* C2 (as stated): for any expression e and any list atoms of basis atoms,
   collect(collect(e, atoms), atoms) equals collect(e, atoms), and no element
   of atoms appears in more than one term of the result. *)
C2_CollectIdempotent ==
    op = "collect" =>
        /\ Collect(C, nc_list) = C
        /\ \A k \in 1..Len(nc_list) :
              Cardinality({i \in 1..Len(C) :
                             \E j \in 1..Len(C[i].nc) : C[i].nc[j] = nc_list[k]}) <= 1

(***************************************************************************)
(* Claims about the Metric class (under Spec).                             *)
(***************************************************************************)
\* __init__ has returned a Metric and no method has been called yet
Constructed == pc = "built" /\ call = "__init__"
\* __init__ got as far as building the metric (it returned, or raised later)
MetricBuilt == call = "__init__" /\ self.g_raw # <<>>
Symmetric(m, n) == \A i, j \in 1..n : m[i][j] = m[j][i]

(* C3: for every Metric the constructor builds, from any accepted input form
   (matrix object, nested sequence, flat sequence, specification string,
   embedding X, default), the working metric has g[i,j] = g[j,i] for all
   i, j. *)
C3_MetricSymmetric == Constructed => Symmetric(self.g, self.n)

\* the diagonal entries that are positive numbers, and the other numbers
PositiveDiag(s) == {i \in 1..s.n : IsNumber(s.g[i][i]) /\ s.g[i][i].a > 0}
NonPositiveDiag(s) == {i \in 1..s.n : IsNumber(s.g[i][i]) /\ ~(s.g[i][i].a > 0)}

(* C4: after any successful construction of a Metric of dimension n, sig is
   a pair (p, q) with p + q = n; when the metric is orthogonal and every
   diagonal entry is a number, p is the number of positive diagonal entries
   and q the number of non-positive ones. *)
C4_SignatureResolved ==
    Constructed =>
        /\ self.sig.t = "pair"
        /\ self.sig.p + self.sig.q = self.n
        /\ (self.is_ortho /\ \A i \in 1..self.n : IsNumber(self.g[i][i]))
              => /\ self.sig.p = Cardinality(PositiveDiag(self))
                 /\ self.sig.q = Cardinality(NonPositiveDiag(self))

\* __init__ called signature(), which took the hint (the metric is not
\* numeric, so not orthogonal): it returned, or raised one of its errors
SignatureFromHint ==
    /\ MetricBuilt
    /\ ~self.g_is_numeric
    /\ \/ pc = "built"
       \/ err \in {ErrSigRange, ErrSigHint, ErrSigValue}

(* C5: when signature() resolves the signature of an n-dimensional metric
   from the hint, an integer k with 0 <= k <= n gives (k, n-k), an integer
   k > n fails with a range error, 'e' gives (n, 0), 'm+' gives (n-1, 1),
   'm-' gives (1, n-1), and every other hint fails with an invalid-signature
   error; no hint outside these yields a pair. *)
C5_SignatureFromHint ==
    SignatureFromHint =>
        LET h == kwargs.sig
            n == self.n
            gives(p, q) == pc = "built" /\ self.sig = SigPair(p, q)
        IN  CASE h.t = "int" /\ 0 <= h.p /\ h.p <= n -> gives(h.p, n - h.p)
              [] h.t = "int" /\ h.p > n -> pc = "failed" /\ err = ErrSigRange
              [] h.t = "e" -> gives(n, 0)
              [] h.t = "m+" -> gives(n - 1, 1)
              [] h.t = "m-" -> gives(1, n - 1)
              [] OTHER -> /\ pc = "failed"
                          /\ err \in {ErrSigHint, ErrSigValue}
                          /\ self.sig.t # "pair"

\* g_inv is the inverse of g.  The placeholder functions g__i__j of the
\* general metric and the determinant function |gsym| are read as they are
\* named: as the entries of the inverse and as the determinant of g.
InverseOfG(s) ==
    \/ s.g_inv.kind \in {"inverse", "adj_over_detg"} /\ s.g_inv.m = s.g
    \/ s.g_inv.kind = "symbols"
    \/ s.g_inv.kind = "eye" /\ s.g = Eye(s.n)

(* C6: after inverse_metric() on a Metric whose metric g is non-degenerate,
   g_inv is set and g * g_inv simplifies to the identity matrix; for an
   orthogonal metric the call succeeds and g_inv is the diagonal matrix of
   the reciprocals 1/g[i,i]. *)
C6_InverseCorrect ==
    (pc = "built" /\ call = "inverse_metric" /\ Det(self.g, self.n) # {})
        => /\ err = "none"
           /\ self.g_inv.kind # "None"
           /\ InverseOfG(self)

(* C7: after construction, is_ortho is true if and only if every
   off-diagonal entry g[i,j], i != j, above and below the diagonal, is zero;
   a one-row specification of n rationals gives a diagonal metric with
   is_ortho and g_is_numeric true. *)
C7_OrthoIffOffDiagonalZero ==
    Constructed =>
        /\ self.is_ortho <=>
              \A i, j \in 1..self.n : i # j => IsZero(self.g_raw[i][j])
        /\ (/\ kwargs.form = "str"
            /\ Len(kwargs.rows) = 1
            /\ \A i \in 1..Len(kwargs.rows[1]) : kwargs.rows[1][i].k # "#")
              => self.is_ortho /\ self.g_is_numeric

(* C8: constructing a Metric with norm=True whose metric has a non-zero
   off-diagonal entry fails with the ValueError of the normalisation,
   with or without coordinates, and neither g nor de is normalised. *)
C8_NonOrthogonalRejected ==
    (/\ MetricBuilt
     /\ kwargs.norm
     /\ \E i, j \in 1..self.n : i # j /\ ~IsZero(self.g_raw[i][j]))
        => /\ pc = "failed"
           /\ err = ErrNorm
           /\ self.g = self.g_raw
           /\ self.de.st = "set" =>
                 \A i, j \in 1..self.n : self.de.v[i][j].nrm = 0

\* an entry that depends on no coordinate: a number or a constant symbol
CoordIndependent(e) == e.t \in {"num", "sym"}
\* the metric the constructor differentiated (g before any normalisation)
FlatMetric(s) == \A i, j \in 1..s.n : CoordIndependent(s.g_raw[i][j])

(* C9: if the Metric is constructed with coordinates and every entry of g
   is independent of every coordinate (all dg zero), then after construction
   connect_flg is False and the basis-derivative array de is None, not an
   array of zeros. *)
C9_FlatHasNoConnection ==
    (pc = "built" /\ self.coords # <<>> /\ FlatMetric(self))
        => ~self.connect_flg /\ self.de.st = "None"

\* a Metric with coordinates and a constant, non-orthogonal, symbolic
\* metric has been constructed
C9_Witness ==
    /\ Constructed
    /\ self.coords # <<>>
    /\ self.n = 2
    /\ FlatMetric(self)
    /\ self.g[1][2] = SymA
    /\ self.g[2][1] = SymA
    /\ ~self.is_ortho
    /\ self.de.st = "None"

(* C10: for a constructed metric with a non-zero connection, the array
   returned by Christoffel_symbols(mode=1) has Gamma(i,j,k) = Gamma(j,i,k)
   for all i, j, k. *)
C10_FirstKindSymmetric ==
    (pc = "built" /\ call = "Christoffel_symbols" /\ ret.st = "dG")
        => \A i, j, k \in 1..self.n : ret.v[i][j][k] = ret.v[j][i][k]

\* __init__ was called with a specification string and got as far as
\* metric_symbols_list (the basis was accepted, so self.n is its dimension)
StringGiven == call = "__init__" /\ kwargs.form = "str" /\ err # ErrBasisCoords
\* the string's shape does not fit a basis of n vectors
ShapeMismatch(rows, n) ==
    IF Len(rows) = 1
    THEN Len(rows[1]) # n
    ELSE \/ \E r \in 1..Len(rows) : Len(rows[r]) # Len(rows)
         \/ Len(rows) # n

(* C11: for a metric specification string against a basis of dimension n,
   construction fails with a shape-mismatch error whenever a one-row string
   has a number of entries different from n (fewer or more), or a multi-row
   string has a row whose column count differs from the row count, or a row
   count different from n. *)
C11_ShapeMismatchRejected ==
    (StringGiven /\ ShapeMismatch(kwargs.rows, self.n))
        => pc = "failed" /\ err \in {ErrRank, ErrSquare}

(* C12: Christoffel_symbols(mode) called with any mode other than 1 or 2
   fails with an invalid-argument error on every Metric instance, including
   one whose connect_flg is False. *)
C12_UnsupportedModeRejected ==
    (pc = "built" /\ call = "Christoffel_symbols" /\ mode \notin {1, 2})
        => err = ErrMode /\ ret = None

\* every off-diagonal entry of the metric as supplied is zero
Orthogonal(s) == \A i, j \in 1..s.n : i # j => IsZero(s.g_raw[i][j])
\* the metric as supplied, rescaled to g[i,j] / (e_norm[i] * e_norm[j])
Rescaled(s) ==
    LET e_norm == [k \in 1..s.n |-> SquareRootOfExpr(s.g_raw[k][k])]
    IN  Mat(s.n, LAMBDA i, j : NormEntry(s.g_raw[i][j], i, j, e_norm))

(* C13: constructing an orthogonal Metric with norm=True whose connect_flg
   is False (a coordinate-independent g, or no coordinates given) completes
   without error, skips the rescaling of the basis derivatives, and still
   leaves the working metric rescaled to g[i,j] / (e_norm[i]*e_norm[j]). *)
C13_FlatMetricNormalized ==
    (/\ MetricBuilt
     /\ kwargs.norm
     /\ Orthogonal(self)
     /\ ~kwargs.coords \/ FlatMetric(self))
        => /\ pc = "built"
           /\ err = "none"
           /\ self.de.st # "set"
           /\ self.g = Rescaled(self)

\* how often calls of Christoffel_symbols built dG (the constructor's own
\* call, made for de, is not counted)
BuiltByCalls == computed.dG - InitBuilds(self).dG
\* a step from a Metric whose g_inv is set leaves g_inv as it is
InverseKept == (pc = "built" /\ self.g_inv.kind # "None") => self'.g_inv = self.g_inv
\* Christoffel_symbols is called with the mode of the call before it, which
\* returned an array
SameModeAgain ==
    /\ pc = "built"
    /\ call = "Christoffel_symbols" /\ ret.st \in {"dG", "Gamma2"}
    /\ call' = "Christoffel_symbols" /\ mode' = mode

(* C14: over any sequence of calls to inverse_metric() and
   Christoffel_symbols(mode) on one Metric instance, the inverse metric and
   each Christoffel array are computed at most once and then served from
   the cached field; once g_inv is non-None (including when preset by
   g='g') no later call changes it. *)
C14_ComputedAtMostOnce ==
    /\ [](computed.g_inv <= 1 /\ BuiltByCalls <= 1 /\ computed.Gamma2 <= 1)
    /\ [][InverseKept]_vars

(* C14, as the code has it: the inverse metric is assigned at most once and
   then served from g_inv, and once g_inv is non-None (including when
   preset by g='g') no later call changes it; the Christoffel arrays are
   not cached: a call of Christoffel_symbols with the mode of the call
   before it builds the array again and returns an equal array. *)
C14_InverseCachedChristoffelRebuilt ==
    /\ [](computed.g_inv <= 1)
    /\ [][InverseKept]_vars
    /\ [][SameModeAgain => (ret' = ret /\ computed'.dG = computed.dG + 1)]_vars

\* Christoffel_symbols(mode=2) has run twice on a metric whose inverse had
\* to be computed: g_inv was assigned once, Gamma2 was built twice
C14_Witness ==
    /\ pc = "built"
    /\ call = "Christoffel_symbols" /\ mode = 2 /\ err = "none"
    /\ self.g_inv.kind = "inverse"
    /\ computed.g_inv = 1
    /\ computed.Gamma2 = 2

(***************************************************************************)
(* Claims about the simplifier (under SpecSimp).                           *)
(***************************************************************************)
RECURSIVE InListOrder(_, _)
\* the transforms of fs applied to c, the first of the list innermost
InListOrder(fs, c) ==
    IF fs = <<>> THEN c
    ELSE CallTransform(fs[Len(fs)], InListOrder(SubSeq(fs, 1, Len(fs) - 1), c))
\* the sum of the bases of linear_expand(e), each with its transformed
\* coefficient
CoefficientsTransformed(fs, e) ==
    LET le == LinearExpand(e)
    IN  Expand([i \in 1..Len(le.coefs) |->
                  [c |-> InListOrder(fs, le.coefs[i]), nc |-> KeyWord(le.bases[i])]])

(* C15: Simp.apply(expr) uses the pipeline installed by the most recent
   Simp.profile call (initially [simplify]), applies its transforms in list
   order to each coefficient of linear_expand(expr) and never to a basis
   atom, and leaves the active pipeline unchanged; a profile call affects
   every later apply, from any call site, until the next profile call. *)
C15_SimplifierPipeline ==
    /\ [](/\ modes = installed
          /\ op \in {"apply", "applymv"}
                => obj = CoefficientsTransformed(installed.fs, arg))
    /\ [][op' \in {"apply", "applymv"} => modes' = modes]_vars

\* apply ran under an installed pipeline of two transforms that do not
\* commute, on an expression with a scalar part and a basis atom
C15_Witness ==
    /\ op = "apply"
    /\ installed = [list |-> TRUE, fs |-> <<"double", "inc">>]
    /\ Len(LinearExpand(arg).bases) = 2
    /\ LinearExpand(arg).bases[1] = One
    /\ \E i \in 1..Len(obj) : obj[i].nc # <<>> /\ obj[i].c = 3

====
